---------------------------- MODULE Spec2Model ----------------------------
(***************************************************************************)
(* PDF table extractor (src/app.py): upload validation, per-page table     *)
(* extraction with error isolation, table normalization with pandas, and   *)
(* consolidation of the normalized tables into one CSV export.             *)
(*                                                                         *)
(* Three specifications share the variables:                               *)
(*   SpecVal   validate_pdf_file and the main script's dispatch on it      *)
(*   SpecNorm  the normalization of one raw table                          *)
(*   Spec      extract_tables_from_pdf and the main script that follows    *)
(***************************************************************************)
EXTENDS Integers, Sequences, FiniteSets, TLC

VARIABLES
    uploaded_file,      \* the upload handed to validate_pdf_file, or NoFile
    vpc,                \* position inside validate_pdf_file / the main script
    validation_error,   \* what validate_pdf_file returned
    checked,            \* history: the checks validate_pdf_file evaluated
    header,             \* the local `header` of validate_pdf_file
    handoff,            \* read position of the stream handed to extraction
    table,              \* the raw table being normalized (SpecNorm)
    outcome,            \* what lines 41-54 did with it (SpecNorm)
    pc,                 \* position inside extraction / the main script
    pdf,                \* the document behind the upload
    i,                  \* 0-based index of the next page of the loop
    all_tables,         \* the list all_tables
    origin,             \* history: <<page, table>> of each entry of all_tables
    errors,             \* the list errors
    attempts,           \* history: how often each page entered the loop body
    returned,           \* the pair extract_tables_from_pdf returned
    shown,              \* what was written to the page (st.error, st.warning ...)
    combined,           \* the data frame pd.concat returned
    offered             \* the download buttons on the page

vars == <<uploaded_file, vpc, validation_error, checked, header, handoff,
          table, outcome, pc, pdf, i, all_tables, origin, errors, attempts,
          returned, shown, combined, offered>>

valVars  == <<uploaded_file, vpc, validation_error, checked, header, handoff>>
normVars == <<table, outcome>>
pipeVars == <<pc, pdf, i, all_tables, origin, errors, attempts, returned,
              shown, combined, offered>>

----------------------------------------------------------------------------
(* Bounds of the model *)

\* pages of a document
MaxPages == 2
\* raw tables of a document, over all its pages
MaxTables == 2
\* cells of a document, over all its raw tables
MaxCells == 3
\* rows of the raw table normalized in SpecNorm
MaxRows == 2
\* cells of a row of the raw table normalized in SpecNorm
MaxCols == 2

----------------------------------------------------------------------------
(* Data: cells, raw tables, data frames *)

\* None in a cell (pandas: a missing value)
Null == "None"
\* the cell values of the documents: None, and a text
Cells == {Null, "x"}
\* the cell values of SpecNorm: None, the empty text (not missing!), a text
NormCells == {Null, "", "x"}

Max(S) == CHOOSE m \in S : \A n \in S : n <= m

RECURSIVE PickFrom(_, _, _)
\* the entries of seq at the positions in keep, from position k on, in order
PickFrom(seq, keep, k) ==
    IF k > Len(seq) THEN <<>>
    ELSE (IF k \in keep THEN <<seq[k]>> ELSE <<>>) \o PickFrom(seq, keep, k + 1)

Pick(seq, keep) == PickFrom(seq, keep, 1)

\* the frame with no rows and no columns
EmptyFrame == [index |-> <<>>, columns |-> <<>>, data |-> <<>>]

\* number of columns pandas gives a list of rows: the longest row's length
Width(rows) == IF rows = <<>> THEN 0 ELSE Max({Len(rows[r]) : r \in 1..Len(rows)})

\* a short row is filled with missing values on the right
PadRow(row, w) == [c \in 1..w |-> IF c <= Len(row) THEN row[c] ELSE Null]

\* pd.DataFrame(table): labels 0..n-1 on both axes
DataFrame(rows) ==
    [index   |-> [r \in 1..Len(rows) |-> r - 1],
     columns |-> [c \in 1..Width(rows) |-> c - 1],
     data    |-> [r \in 1..Len(rows) |-> PadRow(rows[r], Width(rows))]]

\* df.dropna(how='all'): rows with a value in some column stay, labels kept
DropnaRows(df) ==
    LET keep == {r \in 1..Len(df.data) :
                    \E c \in 1..Len(df.columns) : df.data[r][c] # Null}
    IN  [index   |-> Pick(df.index, keep),
         columns |-> df.columns,
         data    |-> Pick(df.data, keep)]

\* df.dropna(axis=1, how='all'): columns with a value in some row stay
DropnaCols(df) ==
    LET keep == {c \in 1..Len(df.columns) :
                    \E r \in 1..Len(df.data) : df.data[r][c] # Null}
    IN  [index   |-> df.index,
         columns |-> Pick(df.columns, keep),
         data    |-> [r \in 1..Len(df.data) |-> Pick(df.data[r], keep)]]

\* df.empty
IsEmpty(df) == Len(df.index) = 0 \/ Len(df.columns) = 0

\* line 47 without the second dropna
NormalizeRowsOnly(df) == DropnaRows(df)

\* line 47
Normalize(df) == DropnaCols(DropnaRows(df))

\* lines 41-54 for one raw table: "skip", "error" or "append" with the frame
TableOutcome(t) ==
    IF t.malformed THEN [kind |-> "error", df |-> EmptyFrame]
    ELSE IF Len(t.rows) = 0 THEN [kind |-> "skip", df |-> EmptyFrame]
    ELSE LET df == Normalize(DataFrame(t.rows))
         IN  IF IsEmpty(df) THEN [kind |-> "skip", df |-> EmptyFrame]
             ELSE [kind |-> "append", df |-> df]

----------------------------------------------------------------------------
(* The raw tables of SpecNorm *)

\* the sequences over S of length at most n
SeqsUpTo(S, n) == UNION {[1..k -> S] : k \in 0..n}

\* a grid of cells as page.extract_tables() reports it
Grid(rows) == [malformed |-> FALSE, rows |-> rows]

\* a table pd.DataFrame cannot take
Malformed == [malformed |-> TRUE, rows |-> <<>>]

\* the rows of SpecNorm: at most MaxCols cells
RaggedRows == SeqsUpTo(NormCells, MaxCols)

\* the ragged raw tables of SpecNorm: at most MaxRows rows
RaggedTables == {Grid(rows) : rows \in SeqsUpTo(RaggedRows, MaxRows)}

----------------------------------------------------------------------------
(* The documents of Spec *)

\* the rows of exactly k cells
RowsOf(k) == [1..k -> Cells]

RECURSIVE GridsOf(_)
\* the lists of non-empty rows with exactly n cells together
GridsOf(n) ==
    IF n = 0 THEN {<<>>}
    ELSE UNION {{<<r>> \o g : r \in RowsOf(k), g \in GridsOf(n - k)} : k \in 1..n}

\* the raw tables of exactly n cells a page can report
RawTables(n) == {Grid(g) : g \in GridsOf(n)} \cup (IF n = 0 THEN {Malformed} ELSE {})

\* the raw tables of the documents, by their number of cells
TablesByCells == [n \in 0..MaxCells |-> RawTables(n)]

RECURSIVE TableLists(_, _)
\* the lists of exactly t raw tables with at most c cells together
TableLists(t, c) ==
    IF t = 0 THEN {<<>>}
    ELSE UNION {{<<x>> \o rest : x \in TablesByCells[n], rest \in TableLists(t - 1, c - n)}
                : n \in 0..c}

\* the raw tables of a document, in page order: at most MaxTables tables of
\* at most MaxCells cells together
DocumentTables == UNION {TableLists(t, MaxCells) : t \in 0..MaxTables}

\* a page whose extract_tables() raises
FailingPage == [fails |-> TRUE, tables |-> <<>>]

\* a page whose extract_tables() returns ts
Page(ts) == [fails |-> FALSE, tables |-> ts]

\* what the pages of a document do: -1 for a page whose detection fails,
\* else the number of raw tables the page reports
PageShapes == UNION {[1..p -> -1..MaxTables] : p \in 0..MaxPages}

RECURSIVE TablesIn(_, _)
\* the number of raw tables the first p pages of the shape report
TablesIn(shape, p) ==
    IF p = 0 THEN 0
    ELSE TablesIn(shape, p - 1) + (IF shape[p] < 0 THEN 0 ELSE shape[p])

\* the pages of the shape, reporting the tables ts in order
Pages(shape, ts) ==
    [p \in 1..Len(shape) |->
        IF shape[p] < 0 THEN FailingPage
        ELSE Page(SubSeq(ts, TablesIn(shape, p - 1) + 1, TablesIn(shape, p)))]

\* a document pdfplumber.open() cannot open
Unopenable == [opens |-> FALSE, pages |-> <<>>]

Document(ps) == [opens |-> TRUE, pages |-> ps]

\* what the pages do and what they report: the shapes that fit the tables
DocumentPlans ==
    {d \in PageShapes \X DocumentTables : TablesIn(d[1], Len(d[1])) = Len(d[2])}

Documents == {Unopenable} \cup {Document(Pages(d[1], d[2])) : d \in DocumentPlans}

----------------------------------------------------------------------------
(* Spec: extract_tables_from_pdf (lines 14-71) *)

\* the entries of errors; a message names the scope and, 1-based, the page
\* and the table (0 where the message names none)
OpenError == [scope |-> "open", page |-> 0, table |-> 0]
PageError(page_no) == [scope |-> "page", page |-> page_no, table |-> 0]
TableError(page_no, table_no) == [scope |-> "table", page |-> page_no, table |-> table_no]

\* a line on the page: st.error, st.warning, st.info, st.success
Line(level, what) == [level |-> level, what |-> what]
Note(text) == [scope |-> text, page |-> 0, table |-> 0]

NoReturn == [done |-> FALSE, tables |-> <<>>, errors |-> <<>>]
Return(ts, es) == [done |-> TRUE, tables |-> ts, errors |-> es]

\* the locals of the page loop that its body changes
Acc(ts, os, es) == [all_tables |-> ts, origin |-> os, errors |-> es]

\* lines 42-54 with table_idx for table_idx + 1 in the message
TableStepZeroBased(acc, t, page_no, table_idx) ==
    LET o == TableOutcome(t)
    IN  IF o.kind = "append"
        THEN Acc(Append(acc.all_tables, o.df),
                 Append(acc.origin, <<page_no, table_idx + 1>>),
                 acc.errors)
        ELSE IF o.kind = "error"
        THEN Acc(acc.all_tables, acc.origin,
                 Append(acc.errors, TableError(page_no, table_idx)))
        ELSE acc

\* lines 42-54 with the append ahead of the statement that raises: a table
\* that fails is in all_tables and in errors
TableStepKeepsFailed(acc, t, page_no, table_idx) ==
    LET o == TableOutcome(t)
    IN  IF o.kind = "append"
        THEN Acc(Append(acc.all_tables, o.df),
                 Append(acc.origin, <<page_no, table_idx + 1>>),
                 acc.errors)
        ELSE IF o.kind = "error"
        THEN Acc(Append(acc.all_tables, o.df),
                 Append(acc.origin, <<page_no, table_idx + 1>>),
                 Append(acc.errors, TableError(page_no, table_idx + 1)))
        ELSE acc

\* lines 42-54: one raw table, 0-based table_idx, on the page numbered page_no
TableStep(acc, t, page_no, table_idx) ==
    LET o == TableOutcome(t)
    IN  IF o.kind = "append"
        THEN Acc(Append(acc.all_tables, o.df),
                 Append(acc.origin, <<page_no, table_idx + 1>>),
                 acc.errors)
        ELSE IF o.kind = "error"
        THEN Acc(acc.all_tables, acc.origin,
                 Append(acc.errors, TableError(page_no, table_idx + 1)))
        ELSE acc

RECURSIVE TableLoop(_, _, _, _)
\* lines 40-54: the tables of the page from table_idx on, in order
TableLoop(acc, tables, page_no, table_idx) ==
    IF table_idx >= Len(tables) THEN acc
    ELSE TableLoop(TableStep(acc, tables[table_idx + 1], page_no, table_idx),
                   tables, page_no, table_idx + 1)

\* lines 31-59 with `pass` in the page handler: a failing page leaves no entry
PageBodySilent(acc, page, k) ==
    IF page.fails THEN acc ELSE TableLoop(acc, page.tables, k + 1, 0)

\* lines 31-59: the body of the page loop for the page of 0-based index k
PageBody(acc, page, k) ==
    IF page.fails
    THEN Acc(acc.all_tables, acc.origin, Append(acc.errors, PageError(k + 1)))
    ELSE TableLoop(acc, page.tables, k + 1, 0)

----------------------------------------------------------------------------
(* SpecNorm: lines 41-54 on one raw table, the lists empty before *)

NoOutcome == [done |-> FALSE, all_tables |-> <<>>, errors |-> <<>>]

InitNorm ==
    /\ table \in RaggedTables
    /\ outcome = NoOutcome

\* lines 41-54 applied to the table, as table 1 of page 1
NormalizeTable ==
    /\ UNCHANGED <<valVars, pipeVars>>
    /\ ~outcome.done
    /\ LET acc == TableStep(Acc(<<>>, <<>>, <<>>), table, 1, 0)
       IN  outcome' = [done |-> TRUE, all_tables |-> acc.all_tables, errors |-> acc.errors]
    /\ UNCHANGED table

----------------------------------------------------------------------------
(* Spec: the state of extract_tables_from_pdf and its steps *)

total_pages == Len(pdf.pages)

Init ==
    /\ pdf \in Documents
    /\ pc = "open"
    /\ i = 0
    /\ all_tables = <<>>
    /\ origin = <<>>
    /\ errors = <<>>
    /\ attempts = [k \in 1..Len(pdf.pages) |-> 0]
    /\ returned = NoReturn
    /\ shown = <<>>
    /\ combined = EmptyFrame
    /\ offered = <<>>

\* lines 22-28 and 65-69: open the document, or report that it does not open
Open ==
    /\ UNCHANGED <<valVars, normVars>>
    /\ pc = "open"
    /\ IF pdf.opens
       THEN /\ pc' = "pages"
            /\ UNCHANGED <<errors, shown, returned>>
       ELSE /\ errors' = Append(errors, OpenError)
            /\ shown' = Append(shown, Line("error", OpenError))
            /\ returned' = Return(<<>>, errors')
            /\ pc' = "caller"
    /\ UNCHANGED <<pdf, i, all_tables, origin, attempts, combined, offered>>

\* lines 30-59 with `break` for `continue` at line 59: the loop ends at the
\* first page that fails
ProcessPageBreaks ==
    /\ UNCHANGED <<valVars, normVars>>
    /\ pc = "pages"
    /\ i < total_pages
    /\ LET acc == PageBody(Acc(all_tables, origin, errors), pdf.pages[i + 1], i)
       IN  /\ all_tables' = acc.all_tables
           /\ origin' = acc.origin
           /\ errors' = acc.errors
    /\ attempts' = [attempts EXCEPT ![i + 1] = @ + 1]
    /\ i' = IF pdf.pages[i + 1].fails THEN total_pages ELSE i + 1
    /\ UNCHANGED <<pc, pdf, returned, shown, combined, offered>>

\* lines 30-59: one iteration of the page loop
ProcessPage ==
    /\ UNCHANGED <<valVars, normVars>>
    /\ pc = "pages"
    /\ i < total_pages
    /\ LET acc == PageBody(Acc(all_tables, origin, errors), pdf.pages[i + 1], i)
       IN  /\ all_tables' = acc.all_tables
           /\ origin' = acc.origin
           /\ errors' = acc.errors
    /\ attempts' = [attempts EXCEPT ![i + 1] = @ + 1]
    /\ i' = i + 1
    /\ UNCHANGED <<pc, pdf, returned, shown, combined, offered>>

\* lines 61-63 and 71: the loop is over, return the two lists
Finish ==
    /\ UNCHANGED <<valVars, normVars>>
    /\ pc = "pages"
    /\ i >= total_pages
    /\ returned' = Return(all_tables, errors)
    /\ pc' = "caller"
    /\ UNCHANGED <<pdf, i, all_tables, origin, errors, attempts, shown, combined, offered>>

----------------------------------------------------------------------------
(* Spec: the main script after extraction (lines 111-206) *)

RECURSIVE Warnings(_)
\* lines 116-117: one warning per entry of errors
Warnings(es) ==
    IF es = <<>> THEN <<>>
    ELSE <<Line("warning", Head(es))>> \o Warnings(Tail(es))

\* lines 113-117: show the errors extraction returned
ShowErrors ==
    /\ UNCHANGED <<valVars, normVars>>
    /\ pc = "caller"
    /\ shown' = IF returned.errors # <<>>
                THEN shown \o <<Line("warning", Note("Some errors occurred during processing:"))>>
                           \o Warnings(returned.errors)
                ELSE shown
    /\ pc' = "results"
    /\ UNCHANGED <<pdf, i, all_tables, origin, errors, attempts, returned, combined, offered>>

\* the labels of a frame's columns, as a set
Labels(df) == {df.columns[c] : c \in 1..Len(df.columns)}

RECURSIVE AppearanceOrder(_, _)
\* the column labels of the frames in order of first appearance
AppearanceOrder(frames, seen) ==
    IF frames = <<>> THEN seen
    ELSE LET have == {seen[c] : c \in 1..Len(seen)}
             cols == Head(frames).columns
             new  == {c \in 1..Len(cols) : cols[c] \notin have}
         IN  AppearanceOrder(Tail(frames), seen \o Pick(cols, new))

RECURSIVE Ascending(_)
\* the labels of S in ascending order
Ascending(S) ==
    IF S = {} THEN <<>>
    ELSE LET m == CHOOSE x \in S : \A y \in S : x <= y
         IN  <<m>> \o Ascending(S \ {m})

\* the union of the column labels, in the orders pandas versions give it
\* (sort=False keeps the order of appearance; older versions sort integers)
ColumnOrders(frames) ==
    {AppearanceOrder(frames, <<>>),
     Ascending(UNION {Labels(frames[k]) : k \in 1..Len(frames)})}

\* position of label in the columns of df, 0 when df has no such column
PosOf(df, label) ==
    IF label \in Labels(df)
    THEN CHOOSE c \in 1..Len(df.columns) : df.columns[c] = label
    ELSE 0

\* a row of df laid out under cols by position: the labels are not looked at
ReindexByPosition(df, r, cols) ==
    [c \in 1..Len(cols) |-> IF c <= Len(df.columns) THEN df.data[r][c] ELSE Null]

\* a row of df laid out under the columns cols: by label, None where df has none
Reindex(df, r, cols) ==
    [c \in 1..Len(cols) |->
        IF PosOf(df, cols[c]) = 0 THEN Null ELSE df.data[r][PosOf(df, cols[c])]]

RECURSIVE Stack(_, _)
\* the rows of the frames one below the other, each laid out under cols
Stack(frames, cols) ==
    IF frames = <<>> THEN <<>>
    ELSE LET df == Head(frames)
         IN  [r \in 1..Len(df.data) |-> Reindex(df, r, cols)] \o Stack(Tail(frames), cols)

\* pd.concat(frames, ignore_index=True) with the union of the columns as cols
Concat(frames, cols) ==
    LET data == Stack(frames, cols)
    IN  [index |-> [r \in 1..Len(data) |-> r - 1], columns |-> cols, data |-> data]

\* df.to_csv(buffer, index=False): the column labels, then the rows without
\* their labels, a missing value written as the empty field
ToCsv(df) ==
    [header |-> df.columns,
     lines  |-> [r \in 1..Len(df.data) |->
                    [c \in 1..Len(df.columns) |->
                        IF df.data[r][c] = Null THEN "" ELSE df.data[r][c]]]]

\* a download button: table 0 is the combined table, n > 0 is "Download Table n"
Button(n, df) == [table |-> n, csv |-> ToCsv(df)]

\* lines 192-206: extraction returned no table
NoTables ==
    /\ UNCHANGED <<valVars, normVars>>
    /\ pc = "results"
    /\ returned.tables = <<>>
    /\ shown' = Append(shown, Line("warning", Note("No tables found in the PDF.")))
    /\ pc' = "done"
    /\ UNCHANGED <<pdf, i, all_tables, origin, errors, attempts, returned, combined, offered>>

\* lines 119-149 and 171-173: combine the tables and show the result, or
\* report that this failed
Combine ==
    /\ UNCHANGED <<valVars, normVars>>
    /\ pc = "results"
    /\ returned.tables # <<>>
    /\ \/ /\ \E cols \in ColumnOrders(returned.tables) :
                combined' = Concat(returned.tables, cols)
          /\ pc' = "csv"
          /\ UNCHANGED shown
       \/ /\ shown' = Append(shown, Line("error", Note("Error combining tables")))
          /\ pc' = "fallback"
          /\ UNCHANGED combined
    /\ UNCHANGED <<pdf, i, all_tables, origin, errors, attempts, returned, offered>>

\* lines 151-169: offer the combined table as one CSV, or report that the
\* CSV could not be made
ExportCombined ==
    /\ UNCHANGED <<valVars, normVars>>
    /\ pc = "csv"
    /\ \/ /\ offered' = Append(offered, Button(0, combined))
          /\ shown' = Append(shown, Line("success", Note("Successfully extracted")))
       \/ /\ shown' = Append(shown, Line("error", Note("Error creating CSV file")))
          /\ UNCHANGED offered
    /\ pc' = "done"
    /\ UNCHANGED <<pdf, i, all_tables, origin, errors, attempts, returned, combined>>

RECURSIVE FallbackLoop(_, _, _)
\* lines 177-191: a button for each table whose CSV can be made (not in failing)
FallbackLoop(frames, failing, k) ==
    IF k > Len(frames) THEN [offered |-> <<>>, shown |-> <<>>]
    ELSE LET rest == FallbackLoop(frames, failing, k + 1)
         IN  IF k \in failing
             THEN [offered |-> rest.offered,
                   shown   |-> <<Line("error", TableError(0, k))>> \o rest.shown]
             ELSE [offered |-> <<Button(k, frames[k])>> \o rest.offered,
                   shown   |-> rest.shown]

\* lines 175-191: offer the tables one by one
Fallback ==
    /\ UNCHANGED <<valVars, normVars>>
    /\ pc = "fallback"
    /\ \E failing \in SUBSET (1..Len(returned.tables)) :
          LET out == FallbackLoop(returned.tables, failing, 1)
          IN  /\ offered' = offered \o out.offered
              /\ shown' = shown \o <<Line("info", Note("Download individual tables:"))>>
                                \o out.shown
    /\ pc' = "done"
    /\ UNCHANGED <<pdf, i, all_tables, origin, errors, attempts, returned, combined>>

Next ==
    \/ Open
    \/ ProcessPage
    \/ Finish
    \/ ShowErrors
    \/ NoTables
    \/ Combine
    \/ ExportCombined
    \/ Fallback

----------------------------------------------------------------------------
(* SpecVal: validate_pdf_file (lines 73-94) and the main script's use of it
   (lines 96-111) *)

\* line 81: 50MB limit
MAX_UPLOAD_BYTES == 50 * 1024 * 1024

\* line 89: b'%PDF'
PDF_SIGNATURE == <<"%", "P", "D", "F">>

\* the bytes a file can start with
Signatures == {PDF_SIGNATURE, <<"%", "P", "N", "G">>, <<"P", "D", "F", "%">>}

\* the sizes of the uploads, in bytes
Sizes == {0, 1, 3, 4, 10, MAX_UPLOAD_BYTES - 1, MAX_UPLOAD_BYTES,
          MAX_UPLOAD_BYTES + 1, 60 * 1024 * 1024}

Min(a, b) == IF a <= b THEN a ELSE b

\* uploaded_file is None
NoFile == [present |-> FALSE, size |-> 0, head |-> <<>>, pos |-> 0, closed |-> FALSE]

\* an UploadedFile (a BytesIO): its size, its first bytes (at most four are
\* modelled), the read position, and whether the stream was closed
Upload(size, sig, pos, closed) ==
    [present |-> TRUE, size |-> size, head |-> SubSeq(sig, 1, Min(size, 4)),
     pos |-> pos, closed |-> closed]

\* the read position is anywhere in the file: an earlier run of the script
\* may have read the stream
Uploads ==
    {NoFile}
    \cup UNION {{Upload(size, sig, pos, closed) :
                    sig \in Signatures, pos \in {0, Min(size, 2), size}, closed \in BOOLEAN}
                : size \in Sizes}

\* the returns of validate_pdf_file
None == "None"
NO_FILE == "No file uploaded"
EMPTY_FILE == "Uploaded file is empty"
TOO_LARGE == "File size too large (maximum 50MB allowed)"
NOT_PDF == "File does not appear to be a valid PDF"
READ_ERROR == "Error reading file header"
\* validate_pdf_file has not returned
Unset == "unset"
\* the stream has not been handed to extraction
NotHanded == -1

\* f.seek(p)
Seek(f, p) == [f EXCEPT !.pos = p]

\* the bytes f.read(n) returns
ReadBytes(f, n) == SubSeq(f.head, f.pos + 1, Min(f.pos + n, Len(f.head)))

\* f after f.read(n)
ReadAdvance(f, n) == [f EXCEPT !.pos = Min(f.pos + n, f.size)]

\* line 78
IsEmptyUpload(f) == f.size = 0

\* line 81 with >= for >: an upload of exactly the limit is turned away
IsTooLargeAtLimit(f) == f.size >= MAX_UPLOAD_BYTES

\* line 81
IsTooLarge(f) == f.size > MAX_UPLOAD_BYTES

\* lines 86-87 without line 88: the position stays behind the header
AfterHeaderReadNoRewind(f) == ReadAdvance(Seek(f, 0), 4)

\* lines 86-88: the stream after the header was read
AfterHeaderRead(f) == Seek(ReadAdvance(Seek(f, 0), 4), 0)

\* the history entry of a check: its name and the upload as it found it
Checked(name) == [check |-> name, file |-> uploaded_file]

InitVal ==
    /\ uploaded_file \in Uploads
    /\ vpc = "presence"
    /\ validation_error = Unset
    /\ checked = <<>>
    /\ header = <<>>
    /\ handoff = NotHanded

\* validate_pdf_file returns e
ReturnFromValidate(e) ==
    /\ validation_error' = e
    /\ vpc' = "returned"

\* lines 75-76
CheckPresence ==
    /\ UNCHANGED <<normVars, pipeVars>>
    /\ vpc = "presence"
    /\ checked' = Append(checked, Checked("presence"))
    /\ IF ~uploaded_file.present
       THEN ReturnFromValidate(NO_FILE)
       ELSE vpc' = "empty" /\ UNCHANGED validation_error
    /\ UNCHANGED <<uploaded_file, header, handoff>>

\* lines 78-79
CheckEmpty ==
    /\ UNCHANGED <<normVars, pipeVars>>
    /\ vpc = "empty"
    /\ checked' = Append(checked, Checked("empty"))
    /\ IF IsEmptyUpload(uploaded_file)
       THEN ReturnFromValidate(EMPTY_FILE)
       ELSE vpc' = "limit" /\ UNCHANGED validation_error
    /\ UNCHANGED <<uploaded_file, header, handoff>>

\* lines 81-82
CheckLimit ==
    /\ UNCHANGED <<normVars, pipeVars>>
    /\ vpc = "limit"
    /\ checked' = Append(checked, Checked("limit"))
    /\ IF IsTooLarge(uploaded_file)
       THEN ReturnFromValidate(TOO_LARGE)
       ELSE vpc' = "signature" /\ UNCHANGED validation_error
    /\ UNCHANGED <<uploaded_file, header, handoff>>

\* lines 85-94: a closed stream raises at the first seek
CheckSignature ==
    /\ UNCHANGED <<normVars, pipeVars>>
    /\ vpc = "signature"
    /\ checked' = Append(checked, Checked("signature"))
    /\ IF uploaded_file.closed
       THEN /\ ReturnFromValidate(READ_ERROR)
            /\ UNCHANGED <<uploaded_file, header>>
       ELSE /\ header' = ReadBytes(Seek(uploaded_file, 0), 4)
            /\ uploaded_file' = AfterHeaderRead(uploaded_file)
            /\ ReturnFromValidate(IF header' # PDF_SIGNATURE THEN NOT_PDF ELSE None)
    /\ UNCHANGED handoff

\* lines 96-111: the main script validates an upload that is there, and
\* hands the stream to extraction when validation found nothing
Dispatch ==
    /\ UNCHANGED normVars
    /\ vpc = "returned"
    /\ uploaded_file.present
    /\ IF validation_error # None
       THEN /\ shown' = Append(shown, Line("error", Note("File validation failed")))
            /\ vpc' = "rejected"
            /\ UNCHANGED handoff
       ELSE /\ shown' = Append(shown, Line("success", Note("File uploaded successfully!")))
            /\ handoff' = uploaded_file.pos
            /\ vpc' = "extract"
    /\ UNCHANGED <<uploaded_file, validation_error, checked, header>>
    /\ UNCHANGED <<pc, pdf, i, all_tables, origin, errors, attempts, returned,
                   combined, offered>>

NextVal ==
    \/ CheckPresence
    \/ CheckEmpty
    \/ CheckLimit
    \/ CheckSignature
    \/ Dispatch

\* the variables of the other specifications, at rest
ValIdle ==
    /\ uploaded_file = NoFile
    /\ vpc = "idle"
    /\ validation_error = Unset
    /\ checked = <<>>
    /\ header = <<>>
    /\ handoff = NotHanded

NormIdle ==
    /\ table = Grid(<<>>)
    /\ outcome = NoOutcome

PipeIdle ==
    /\ pc = "idle"
    /\ pdf = Unopenable
    /\ i = 0
    /\ all_tables = <<>>
    /\ origin = <<>>
    /\ errors = <<>>
    /\ attempts = <<>>
    /\ returned = NoReturn
    /\ shown = <<>>
    /\ combined = EmptyFrame
    /\ offered = <<>>

InitSpec == Init /\ ValIdle /\ NormIdle

Spec == InitSpec /\ [][Next]_vars

NextNorm == NormalizeTable

InitSpecNorm == InitNorm /\ ValIdle /\ PipeIdle

SpecNorm == InitSpecNorm /\ [][NextNorm]_vars

InitSpecVal == InitVal /\ NormIdle /\ PipeIdle

SpecVal == InitSpecVal /\ [][NextVal]_vars

----------------------------------------------------------------------------
(* Claims about validate_pdf_file, checked under SpecVal *)

ValidateReturned == vpc \in {"returned", "rejected", "extract"}

\* the names of the checks evaluated so far, in order
RECURSIVE CheckNames(_)
CheckNames(log) == IF log = <<>> THEN <<>> ELSE <<Head(log).check>> \o CheckNames(Tail(log))

CheckOrder == <<"presence", "empty", "limit", "signature">>

\* C6: validate_pdf_file evaluates presence, size > 0, size <= 50 MiB and the
\* %PDF signature in this order and stops at the first check that fails,
\* returning that check's error; it returns None exactly when all four pass
\* (so 50 MiB with %PDF is accepted, and an empty upload is "Uploaded file is
\* empty" whatever else holds of it).  A closed stream, whose signature
\* cannot be read, is "Error reading file header".
C6_ChecksInOrder ==
    /\ CheckNames(checked) = SubSeq(CheckOrder, 1, Len(checked))
    /\ ValidateReturned =>
        LET f == uploaded_file
            passed == /\ f.present
                      /\ f.size > 0
                      /\ f.size <= 50 * 1024 * 1024
                      /\ ~f.closed
                      /\ f.head = <<"%", "P", "D", "F">>
        IN  /\ (validation_error = None) <=> passed
            /\ ~f.present => validation_error = NO_FILE /\ Len(checked) = 1
            /\ f.present /\ f.size = 0 =>
                    validation_error = EMPTY_FILE /\ Len(checked) = 2
            /\ f.present /\ f.size > 50 * 1024 * 1024 =>
                    validation_error = TOO_LARGE /\ Len(checked) = 3
            /\ f.present /\ f.size > 0 /\ f.size <= 50 * 1024 * 1024 =>
                    /\ Len(checked) = 4
                    /\ validation_error =
                          IF f.closed THEN READ_ERROR
                          ELSE IF f.head = <<"%", "P", "D", "F">> THEN None
                          ELSE NOT_PDF

\* an upload of exactly 50 MiB with the signature was accepted and handed on
C6_Witness ==
    /\ vpc = "extract"
    /\ uploaded_file.size = 50 * 1024 * 1024
    /\ validation_error = None
    /\ Len(checked) = 4

\* C7: when validate_pdf_file accepts the upload or rejects its signature,
\* the read position is 0 and nothing else of the upload has changed; the
\* stream handed to extraction is read from its first byte.
C7_StreamRewound ==
    /\ ValidateReturned /\ validation_error \in {None, NOT_PDF} =>
            /\ uploaded_file.pos = 0
            /\ uploaded_file = [checked[1].file EXCEPT !.pos = 0]
    /\ vpc = "extract" => handoff = 0

\* an upload whose read position was not at the start was validated,
\* accepted and handed to extraction
C7_Witness ==
    /\ vpc = "extract"
    /\ checked[1].file.pos > 0
    /\ handoff = 0

----------------------------------------------------------------------------
(* Claims about normalization, checked under SpecNorm *)

\* the cell of a ragged table at row r, column c: None where the row is short
RawCell(rows, r, c) == IF c <= Len(rows[r]) THEN rows[r][c] ELSE Null

\* the rows, and the columns, of a ragged table that hold a value
FilledRows(rows) ==
    {r \in 1..Len(rows) : \E c \in 1..Len(rows[r]) : rows[r][c] # Null}
FilledCols(rows) ==
    {c \in 1..Width(rows) : \E r \in 1..Len(rows) : RawCell(rows, r, c) # Null}

\* s is strictly increasing
Increasing(s) == \A a, b \in 1..Len(s) : a < b => s[a] < s[b]

\* C8: normalizing a raw table, ragged ones included, records no error; it
\* appends nothing (the table is skipped, exactly when no cell of it holds a
\* value) or one table with at least one row and one column, no row and no
\* column of it all None, whose rows and columns are the raw table's rows and
\* columns that hold a value, in their order, short rows read as None to the
\* right.
C8_NormalizeTotal ==
    outcome.done =>
        /\ outcome.errors = <<>>
        /\ Len(outcome.all_tables) <= 1
        /\ outcome.all_tables = <<>> <=> FilledRows(table.rows) = {}
        /\ outcome.all_tables # <<>> =>
            LET df == outcome.all_tables[1]
                nr == Len(df.index)
                nc == Len(df.columns)
            IN  /\ nr >= 1 /\ nc >= 1
                /\ Len(df.data) = nr
                /\ \A r \in 1..nr : Len(df.data[r]) = nc
                /\ \A r \in 1..nr : \E c \in 1..nc : df.data[r][c] # Null
                /\ \A c \in 1..nc : \E r \in 1..nr : df.data[r][c] # Null
                /\ Increasing(df.index) /\ Increasing(df.columns)
                /\ {df.index[r] + 1 : r \in 1..nr} = FilledRows(table.rows)
                /\ {df.columns[c] + 1 : c \in 1..nc} = FilledCols(table.rows)
                /\ \A r \in 1..nr, c \in 1..nc :
                        df.data[r][c] = RawCell(table.rows, df.index[r] + 1, df.columns[c] + 1)

\* a ragged table lost a row and a column and was appended
C8_Witness ==
    /\ outcome.done
    /\ outcome.all_tables # <<>>
    /\ \E a, b \in 1..Len(table.rows) : Len(table.rows[a]) # Len(table.rows[b])
    /\ Len(outcome.all_tables[1].index) < Len(table.rows)
    /\ Len(outcome.all_tables[1].columns) < Width(table.rows)

----------------------------------------------------------------------------
(* Claims about extract_tables_from_pdf, checked under Spec *)

\* <<page, table>>, both 1-based, of every raw table a page reported
Slots ==
    UNION {{<<p, j>> : j \in 1..Len(pdf.pages[p].tables)} : p \in 1..Len(pdf.pages)}

RawTableAt(s) == pdf.pages[s[1]].tables[s[2]]

\* the slots whose table normalizes to a table, fails, or comes out empty
AppendedSlots == {s \in Slots : TableOutcome(RawTableAt(s)).kind = "append"}
FailedSlots   == {s \in Slots : TableOutcome(RawTableAt(s)).kind = "error"}
SkippedSlots  == {s \in Slots : TableOutcome(RawTableAt(s)).kind = "skip"}

\* a before b in page order and, within a page, in detection order
Before(a, b) == a[1] < b[1] \/ (a[1] = b[1] /\ a[2] < b[2])

\* how many entries of the list es satisfy scope, page and table
CountErrors(es, scope, page_no, table_no) ==
    Cardinality({n \in 1..Len(es) :
        es[n] = [scope |-> scope, page |-> page_no, table |-> table_no]})

\* extract_tables_from_pdf has just returned to line 111; nothing after it
\* changes what it returned
AtReturn == pc = "caller" /\ returned.done

\* C1: whatever pages fail in detection, extract_tables_from_pdf returns; the
\* returned errors hold exactly one page-scoped entry, with the 1-based page
\* number, for each failing page and none for the others; no returned table
\* is from a failing page; the returned tables are the normalized tables of
\* the other pages, in page order and within a page in detection order.
C1_PageFailuresIsolated ==
    AtReturn /\ pdf.opens =>
        /\ \A k \in 1..Len(pdf.pages) :
              CountErrors(returned.errors, "page", k, 0)
                  = IF pdf.pages[k].fails THEN 1 ELSE 0
        /\ Cardinality({n \in 1..Len(returned.errors) : returned.errors[n].scope = "page"})
              = Cardinality({k \in 1..Len(pdf.pages) : pdf.pages[k].fails})
        /\ Len(returned.tables) = Len(origin)
        /\ \A n \in 1..Len(origin) : ~pdf.pages[origin[n][1]].fails
        /\ {origin[n] : n \in 1..Len(origin)} = AppendedSlots
        /\ \A a, b \in 1..Len(origin) : a < b => Before(origin[a], origin[b])
        /\ \A n \in 1..Len(origin) :
              returned.tables[n] = Normalize(DataFrame(RawTableAt(origin[n]).rows))

\* extraction returned for a document whose first page failed in detection
\* and whose second page gave a table
C1_Witness ==
    /\ returned.done
    /\ Len(pdf.pages) = 2
    /\ pdf.pages[1].fails
    /\ Len(returned.tables) >= 1
    /\ origin[1][1] = 2

\* C2: when normalization of a raw table fails, the errors hold exactly one
\* table-scoped entry with its page and its 1-based table number, the table
\* is not among the returned tables, every other raw table of the page that
\* normalizes to a table is, and every later page is gone through.
C2_TableFailuresIsolated ==
    AtReturn /\ pdf.opens =>
        /\ \A s \in FailedSlots :
              /\ CountErrors(returned.errors, "table", s[1], s[2]) = 1
              /\ \A n \in 1..Len(origin) : origin[n] # s
              /\ \A t \in AppendedSlots :
                    t[1] = s[1] => \E n \in 1..Len(origin) :
                        /\ origin[n] = t
                        /\ returned.tables[n] = Normalize(DataFrame(RawTableAt(t).rows))
              /\ \A q \in 1..Len(pdf.pages) : q > s[1] => attempts[q] = 1
        /\ Cardinality({n \in 1..Len(returned.errors) : returned.errors[n].scope = "table"})
              = Cardinality(FailedSlots)

\* the first table of page 1 failed, the second was returned, page 2 was
\* gone through
C2_Witness ==
    /\ returned.done
    /\ Len(pdf.pages) = 2
    /\ <<1, 1>> \in FailedSlots
    /\ <<1, 2>> \in AppendedSlots
    /\ origin = <<(<<1, 2>>)>>
    /\ attempts[2] = 1

\* C3: extract_tables_from_pdf returns without going through the pages only
\* when the document does not open; it then returns no table and exactly one
\* error, the open error.  In every other run each page is gone through
\* exactly once and the returned tables are all the tables normalized.
C3_EarlyReturnOnlyOnOpenFailure ==
    /\ \A k \in 1..Len(pdf.pages) : attempts[k] = IF k <= i THEN 1 ELSE 0
    /\ AtReturn =>
        IF pdf.opens
        THEN /\ i = Len(pdf.pages)
             /\ \A k \in 1..Len(pdf.pages) : attempts[k] = 1
             /\ returned.tables = all_tables
             /\ returned.errors = errors
             /\ \A n \in 1..Len(returned.errors) : returned.errors[n].scope # "open"
        ELSE /\ returned.tables = <<>>
             /\ Len(returned.errors) = 1
             /\ returned.errors[1].scope = "open"

\* a document with a failing first page was gone through to its last page
C3_Witness ==
    /\ returned.done
    /\ pdf.opens
    /\ Len(pdf.pages) = 2
    /\ pdf.pages[1].fails
    /\ attempts[2] = 1
    /\ Len(returned.tables) >= 1

\* the entries of errors that name page k, and the tables page k contributed
ErrorsOfPage(k) == Cardinality({n \in 1..Len(errors) : errors[n].page = k})
TableErrorsOfPage(k) ==
    Cardinality({n \in 1..Len(errors) : errors[n].page = k /\ errors[n].scope = "table"})
TablesOfPage(k) == Cardinality({n \in 1..Len(origin) : origin[n][1] = k})
SlotsOfPage(S, k) == Cardinality({s \in S : s[1] = k})

\* C9 as stated: for every page, the error entries for the page plus the
\* tables it contributed are at most the raw tables detected on it.
C9_BoundedByRawTables ==
    \A k \in 1..Len(pdf.pages) :
        ErrorsOfPage(k) + TablesOfPage(k) <= Len(pdf.pages[k].tables)

\* C9 amended: for every page, the table-scoped error entries for the page
\* plus the tables it contributed are at most the raw tables detected on it
\* (once the page is gone through they are the raw tables less the silently
\* skipped ones), throughout the page loop and at the return; a page whose
\* detection fails adds one page-scoped entry and no table, a page whose
\* detection succeeds adds no page-scoped entry.
C9_BoundedByRawTablesAndPageError ==
    pc \in {"pages", "caller"} => \A k \in 1..Len(pdf.pages) :
        /\ TableErrorsOfPage(k) + TablesOfPage(k) <= Len(pdf.pages[k].tables)
        /\ k <= i => TableErrorsOfPage(k) + TablesOfPage(k)
                        = Len(pdf.pages[k].tables) - SlotsOfPage(SkippedSlots, k)
        /\ ErrorsOfPage(k) - TableErrorsOfPage(k)
              = IF pdf.pages[k].fails /\ k <= i THEN 1 ELSE 0
        /\ pdf.pages[k].fails => TablesOfPage(k) = 0 /\ TableErrorsOfPage(k) = 0

\* page 1 failed in detection; both raw tables of page 2 are accounted for,
\* one by an error and one by a table
C9_Witness ==
    /\ returned.done
    /\ Len(pdf.pages) = 2
    /\ pdf.pages[1].fails
    /\ ErrorsOfPage(1) = 1
    /\ Len(pdf.pages[2].tables) = 2
    /\ TableErrorsOfPage(2) = 1
    /\ TablesOfPage(2) = 1

\* C10: when the document does not open, the run ends with nothing to
\* download and the open failure is on the page exactly once.
C10_OpenFailureShownOnce ==
    pc = "done" /\ ~pdf.opens =>
        /\ returned.tables = <<>>
        /\ offered = <<>>
        /\ Cardinality({n \in 1..Len(shown) :
                shown[n].what = [scope |-> "open", page |-> 0, table |-> 0]}) = 1

----------------------------------------------------------------------------
(* Claims about consolidation, checked under Spec *)

RECURSIVE RowsBefore(_, _)
\* the rows of the frames before frame k
RowsBefore(frames, k) ==
    IF k <= 1 THEN 0 ELSE RowsBefore(frames, k - 1) + Len(frames[k - 1].data)

TotalRows(frames) == RowsBefore(frames, Len(frames) + 1)

\* a field of a CSV: a missing value is the empty field
Field(cell) == IF cell = Null THEN "" ELSE cell

\* row r of df is a line of csv: each of its cells under its column's label
RowInCsv(csv, df, r) ==
    \E l \in 1..Len(csv.lines) :
        \A c \in 1..Len(df.columns) :
            \E c2 \in 1..Len(csv.header) :
                /\ csv.header[c2] = df.columns[c]
                /\ csv.lines[l][c2] = Field(df.data[r][c])

\* C4: a run that consolidates a non-empty list of tables ends with the
\* combined table offered, holding every row of every table, or with every
\* table offered on its own, unchanged.
C4_NoTableLost ==
    pc = "done" /\ returned.tables # <<>> =>
        \/ \E n \in 1..Len(offered) :
              /\ offered[n].table = 0
              /\ Len(offered[n].csv.lines) = TotalRows(returned.tables)
              /\ \A k \in 1..Len(returned.tables) :
                    \A r \in 1..Len(returned.tables[k].data) :
                        RowInCsv(offered[n].csv, returned.tables[k], r)
        \/ \A k \in 1..Len(returned.tables) :
              \E n \in 1..Len(offered) :
                  /\ offered[n].table = k
                  /\ offered[n].csv = ToCsv(returned.tables[k])

\* the combined frame has all rows, and row r of frame k is in it with its
\* cells at their positions, None to the right
AlignedByPosition(frames, frame) ==
    /\ Len(frame.data) = TotalRows(frames)
    /\ Len(frame.columns) = Max({Len(frames[k].columns) : k \in 1..Len(frames)})
    /\ \A k \in 1..Len(frames) :
          \A r \in 1..Len(frames[k].data) :
              LET row == frame.data[RowsBefore(frames, k) + r]
              IN  /\ Len(row) = Len(frame.columns)
                  /\ \A c \in 1..Len(row) :
                        row[c] = IF c <= Len(frames[k].columns)
                                 THEN frames[k].data[r][c] ELSE Null

\* C5 as stated: the combined table stacks the rows of the tables, has as
\* many columns as the widest table, and holds every cell at its ordinal
\* column position, None to the right of narrower tables' rows.
C5_AlignedByPosition ==
    pc = "csv" => AlignedByPosition(returned.tables, combined)

\* the columns of the frame are labelled 0, 1, 2, ... as pd.DataFrame made them
LabelledByPosition(df) == \A c \in 1..Len(df.columns) : df.columns[c] = c - 1

\* C5 amended: the combined table stacks the rows of the tables and aligns
\* the columns by their labels, which are the ordinal positions the columns
\* had in the raw tables: its columns are the labels of all tables, each
\* once (so at least as many as the widest table has); every cell is in the
\* column with its label, and a row is None in the columns its table lacks.
\* Where no table lost a column to the left of one it kept, this is the
\* alignment by position of the claim as stated.
C5_AlignedByLabel ==
    pc = "csv" =>
        LET frames == returned.tables
        IN  /\ Len(combined.data) = TotalRows(frames)
            /\ Labels(combined) = UNION {Labels(frames[k]) : k \in 1..Len(frames)}
            /\ \A a, b \in 1..Len(combined.columns) :
                  a # b => combined.columns[a] # combined.columns[b]
            /\ Len(combined.columns) >= Max({Len(frames[k].columns) : k \in 1..Len(frames)})
            /\ \A k \in 1..Len(frames) :
                  \A r \in 1..Len(frames[k].data) :
                      LET row == combined.data[RowsBefore(frames, k) + r]
                      IN  /\ Len(row) = Len(combined.columns)
                          /\ \A c \in 1..Len(row) :
                                IF combined.columns[c] \in Labels(frames[k])
                                THEN \E c2 \in 1..Len(frames[k].columns) :
                                        /\ frames[k].columns[c2] = combined.columns[c]
                                        /\ row[c] = frames[k].data[r][c2]
                                ELSE row[c] = Null
            /\ (\A k \in 1..Len(frames) : LabelledByPosition(frames[k]))
                  => AlignedByPosition(frames, combined)

\* two tables were combined whose only columns were at different positions
\* of their raw tables: the combined table has two columns
C5_Witness ==
    /\ pc = "csv"
    /\ Len(returned.tables) = 2
    /\ returned.tables[1].columns = <<1>>
    /\ returned.tables[2].columns = <<0>>
    /\ Len(combined.columns) = 2
    /\ Len(combined.data) = 2

====
